---- MODULE Spec2Model ----
(***************************************************************************)
(* A model of MonteCarlo/MonteCarlo.py: the classes Die, Game and Analyzer. *)
(*                                                                         *)
(* Objects live in the variables: dice is the heap of Die instances the    *)
(* caller has constructed, game is the caller's Game instance (its dice    *)
(* are references into the heap, as in the code, which stores the list it  *)
(* is given), analyzer is the caller's Analyzer instance, and last records *)
(* the most recent call: its arguments, the exception it raised, if any,   *)
(* and the value it returned.                                              *)
(*                                                                         *)
(* Numbers: weights are floats in the code; the model keeps the values     *)
(* that are whole numbers.  Face values are the numbers of FaceVals.       *)
(***************************************************************************)
EXTENDS Integers, Sequences, FiniteSets, TLC

VARIABLES dice, game, analyzer, last

vars == <<dice, game, analyzer, last>>

\* Bounds of the model: the dice built where dice are used alone, the dice
\* built where they are played in a game, the length of a faces array, and
\* the rolls of one call.
MaxSoloDice == 1
\* The most dice of a game whose dice the caller goes on adjusting.
MaxSharedDice == 1
MaxDice == 2
MaxFaces == 2
MaxRolls == 2

\* The face values the dice are built from: 1 lies among the columns
\* n_faces_per_roll keeps, 7 does not.
FaceVals == {1, 7}

\* The arrays of at most MaxFaces values handed to Die(...).
FaceArrays == UNION {[1..n -> FaceVals] : n \in 0..MaxFaces}

\* What the caller passes as faces: a numpy array or a plain list.
FacesInputs == [type : {"ndarray", "list"}, data : FaceArrays]

\* What the caller passes as a weight: an int, or a str (its characters).
IntW(n) == [type |-> "int", num |-> n, str |-> <<>>]
StrW(s) == [type |-> "str", num |-> 0, str |-> s]
WeightInputs == {IntW(0), IntW(2), StrW(<<"-", "1">>), StrW(<<"x">>)}

NoGame == [made |-> FALSE]
NoAnalyzer == [made |-> FALSE]
NoResults == [played |-> FALSE]

------------------------------------------------------------------------------
\* Helpers: Python and numpy built-ins, as the code uses them.

RECURSIVE SumSeq(_)
SumSeq(s) == IF s = <<>> THEN 0 ELSE s[1] + SumSeq(Tail(s))

\* Insert x into the ascending sequence s.
RECURSIVE Insert(_, _)
Insert(x, s) ==
    IF s = <<>> THEN <<x>>
    ELSE IF x <= s[1] THEN <<x>> \o s
    ELSE <<s[1]>> \o Insert(x, Tail(s))

\* sorted(roll): the values of roll in ascending order.
RECURSIVE sorted(_)
sorted(s) == IF s = <<>> THEN <<>> ELSE Insert(s[1], sorted(Tail(s)))

\* set(roll)
set(s) == {s[i] : i \in DOMAIN s}

RECURSIVE SetToSeq(_)
SetToSeq(S) ==
    IF S = {} THEN <<>>
    ELSE LET m == CHOOSE x \in S : \A y \in S : x <= y
         IN <<m>> \o SetToSeq(S \ {m})

\* np.unique(faces): the distinct values, ascending.
np_unique(faces) == SetToSeq(set(faces))

\* np.array_equal(a, b): same shape and same value at every position.
np_array_equal(a, b) ==
    /\ Len(a) = Len(b)
    /\ \A i \in DOMAIN a : a[i] = b[i]

\* np.ones(n)
np_ones(n) == [i \in 1..n |-> 1]

Digits == <<"0", "1", "2", "3", "4", "5", "6", "7", "8", "9">>
IsDigit(c) == \E i \in DOMAIN Digits : Digits[i] = c
DigitVal(c) == (CHOOSE i \in DOMAIN Digits : Digits[i] = c) - 1

RECURSIVE DigitsVal(_, _)
DigitsVal(s, acc) ==
    IF s = <<>> THEN acc ELSE DigitsVal(Tail(s), 10 * acc + DigitVal(s[1]))

\* float(str): an optional sign and one or more digits parse to that number;
\* anything else the model's inputs hold raises ValueError.
float_ok(s) ==
    LET body == IF s # <<>> /\ s[1] \in {"-", "+"} THEN Tail(s) ELSE s
    IN /\ body # <<>>
       /\ \A i \in DOMAIN body : IsDigit(body[i])

float_val(s) ==
    IF s[1] = "-" THEN 0 - DigitsVal(Tail(s), 0)
    ELSE IF s[1] = "+" THEN DigitsVal(Tail(s), 0)
    ELSE DigitsVal(s, 0)

------------------------------------------------------------------------------
\* class Die

\* pd.DataFrame({'weight': weights}, index=faces): one row per position.
DataFrame_die(faces, weights) ==
    [i \in 1..Len(faces) |-> [face |-> faces[i], weight |-> weights[i]]]

\* face_value in self._die.index
in_index(df, face_value) == \E i \in DOMAIN df : df[i].face = face_value

\* loc_set with the row label dropped: the assignment reaches the whole column.
loc_set_column(df, face_value, w) ==
    [i \in DOMAIN df |-> [df[i] EXCEPT !.weight = w]]

\* self._die.loc[face_value, 'weight'] = w: every row labelled face_value.
loc_set(df, face_value, w) ==
    [i \in DOMAIN df |->
        IF df[i].face = face_value THEN [df[i] EXCEPT !.weight = w] ELSE df[i]]

\* Die_init_error without the test for distinct values.
Die_init_error_unchecked(faces) ==
    IF faces.type = "ndarray" THEN "none" ELSE "TypeError"

\* Die.__init__: the exception raised, "none" when the die is built.
Die_init_error(faces) ==
    IF faces.type = "ndarray"
    THEN IF Len(faces.data) # Len(np_unique(faces.data))
         THEN "ValueError"
         ELSE "none"
    ELSE "TypeError"

\* Die.__init__: the fields of the new instance.
Die_new(faces) ==
    [faces |-> faces.data,
     weights |-> np_ones(Len(faces.data)),
     _die |-> DataFrame_die(faces.data, np_ones(Len(faces.data)))]

Die_init(faces) ==
    /\ UNCHANGED <<game, analyzer>>
    /\ LET err == Die_init_error(faces)
       IN /\ dice' = IF err = "none" THEN Append(dice, Die_new(faces)) ELSE dice
          /\ last' = [op |-> "Die", faces |-> faces, err |-> err]

\* Die.adjust_weight: the exception raised, "none" when the weight is set.
adjust_weight_error(die, face_value, adjusted_weight) ==
    IF in_index(die._die, face_value)
    THEN IF adjusted_weight.type # "int" /\ adjusted_weight.type # "float"
         THEN IF float_ok(adjusted_weight.str) THEN "none" ELSE "TypeError"
         ELSE "none"
    ELSE "IndexError"

\* Die.adjust_weight: the value stored, after the float(...) of a non-number.
adjust_weight_value(adjusted_weight) ==
    IF adjusted_weight.type # "int" /\ adjusted_weight.type # "float"
    THEN float_val(adjusted_weight.str)
    ELSE adjusted_weight.num

adjust_weight(d, face_value, adjusted_weight) ==
    /\ d \in DOMAIN dice
    /\ LET err == adjust_weight_error(dice[d], face_value, adjusted_weight)
       IN /\ dice' =
               IF err = "none"
               THEN [dice EXCEPT ![d]._die =
                        loc_set(@, face_value, adjust_weight_value(adjusted_weight))]
               ELSE dice
          /\ last' = [op |-> "adjust_weight", die |-> d, face_value |-> face_value,
                      adjusted_weight |-> adjusted_weight, err |-> err]
    /\ UNCHANGED <<game, analyzer>>

\* DataFrame.sample(weights=...) raises ValueError on a negative weight and on
\* weights that sum to zero (an empty frame's do).
sample_raises(df) ==
    \/ \E i \in DOMAIN df : df[i].weight < 0
    \/ SumSeq([i \in DOMAIN df |-> df[i].weight]) = 0

\* DataFrame.sample(weights=...).index[0]: a face of positive weight.
sample(df) == {df[i].face : i \in {j \in DOMAIN df : df[j].weight > 0}}

\* roll_die_results with the loop one draw short.
RECURSIVE roll_die_results_short(_, _)
roll_die_results_short(die, n_rolls) ==
    IF n_rolls <= 1 THEN {<<>>}
    ELSE {Append(results, result) :
            results \in roll_die_results_short(die, n_rolls - 1),
            result \in sample(die._die)}

\* Die.roll_die: the lists the loop can build in n_rolls draws.
RECURSIVE roll_die_results(_, _)
roll_die_results(die, n_rolls) ==
    IF n_rolls = 0 THEN {<<>>}
    ELSE {Append(results, result) :
            results \in roll_die_results(die, n_rolls - 1),
            result \in sample(die._die)}

\* Die.roll_die: sample raises in the first draw or in none.
roll_die_error(die, n_rolls) ==
    IF n_rolls > 0 /\ sample_raises(die._die) THEN "ValueError" ELSE "none"

roll_die(d, n_rolls) ==
    /\ d \in DOMAIN dice
    /\ LET err == roll_die_error(dice[d], n_rolls)
       IN IF err = "none"
          THEN \E results \in roll_die_results(dice[d], n_rolls) :
                 last' = [op |-> "roll_die", die |-> d, n_rolls |-> n_rolls,
                          err |-> err, out |-> results]
          ELSE last' = [op |-> "roll_die", die |-> d, n_rolls |-> n_rolls,
                        err |-> err]
    /\ UNCHANGED <<dice, game, analyzer>>

\* Die.roll_die(): n_rolls defaults to 1.
roll_die_default(d) == roll_die(d, 1)

\* Die.show_die: a copy of the frame.
show_die(d) ==
    /\ d \in DOMAIN dice
    /\ last' = [op |-> "show_die", die |-> d, err |-> "none", out |-> dice[d]._die]
    /\ UNCHANGED <<dice, game, analyzer>>

------------------------------------------------------------------------------
\* class Game

\* The faces of the die a reference of the game points at.
faces_of(ref) == dice[ref].faces

\* Game.__init__: the exception raised, "none" when the game is built.  The
\* list's first element is read before the loop.
Game_init_error(similar_dice) ==
    IF similar_dice = <<>> THEN "IndexError"
    ELSE LET reference_faces == faces_of(similar_dice[1])
         IN IF \E i \in DOMAIN similar_dice :
                   ~np_array_equal(faces_of(similar_dice[i]), reference_faces)
            THEN "ValueError"
            ELSE "none"

\* A new game takes the place of the caller's game; the analyzer of the game
\* it replaces goes with it.
Game_init(similar_dice) ==
    /\ \A i \in DOMAIN similar_dice : similar_dice[i] \in DOMAIN dice
    /\ UNCHANGED dice
    /\ LET err == Game_init_error(similar_dice)
       IN /\ game' = IF err = "none"
                     THEN [made |-> TRUE, dice |-> similar_dice, results |-> NoResults]
                     ELSE game
          /\ analyzer' = IF err = "none" THEN NoAnalyzer ELSE analyzer
          /\ last' = [op |-> "Game", similar_dice |-> similar_dice, err |-> err]

\* game_die that rolls a die rebuilt from the faces, Die(die.faces), in place
\* of the caller's object.
game_die_rebuilt(ref) == Die_new([type |-> "ndarray", data |-> dice[ref].faces])

\* self.dice[i]: the list the constructor kept holds the caller's Die objects
\* themselves, so the loop rolls each die as it is at the call.
game_die(ref) == dice[ref]

\* Game.play: the exception a roll_die call of the loop raises.
play_error(refs, n_rolls) ==
    IF \E i \in DOMAIN refs : roll_die_error(game_die(refs[i]), n_rolls) # "none"
    THEN "ValueError"
    ELSE "none"

\* Game.play: the lists of lists the loop over the dice can build.
RECURSIVE play_rolls(_, _)
play_rolls(refs, n_rolls) ==
    IF refs = <<>> THEN {<<>>}
    ELSE {Append(results, result) :
            results \in play_rolls(SubSeq(refs, 1, Len(refs) - 1), n_rolls),
            result \in roll_die_results(game_die(refs[Len(refs)]), n_rolls)}

\* pd.DataFrame(results): one row per inner list, labels counted from 0.
DataFrame_rows(results) ==
    [index |-> [r \in 1..Len(results) |-> r - 1],
     columns |-> [c \in 1..(IF results = <<>> THEN 0 ELSE Len(results[1])) |-> c - 1],
     values |-> results]

\* DataFrame_T that hands the frame back as it is.
DataFrame_T_identity(df) == df

\* DataFrame.T: rows and columns exchanged.
DataFrame_T(df) ==
    [index |-> df.columns,
     columns |-> df.index,
     values |-> [r \in DOMAIN df.columns |-> [c \in DOMAIN df.index |-> df.values[c][r]]]]

\* "Die " + str(i + 1)
die_label(i) == [text |-> "Die ", number |-> i + 1]

\* Game.play: the frame stored in self.results.
play_results(results) ==
    LET transposed == DataFrame_T(DataFrame_rows(results))
        shifted == [transposed EXCEPT !.index = [r \in DOMAIN @ |-> @[r] + 1]]
    IN [played |-> TRUE,
        index |-> shifted.index,
        columns |-> [i \in 1..Len(shifted.columns) |-> die_label(i - 1)],
        values |-> shifted.values]

\* The number of rows self.results holds; none before the first play.
n_rows(results) == IF results.played THEN Len(results.values) ELSE 0

\* assign_results that appends the new frame's rows to the ones already stored.
assign_results_concat(before, frame) ==
    IF before.played
    THEN [played |-> TRUE,
          index |-> [r \in 1..(Len(before.values) + Len(frame.values)) |-> r],
          columns |-> frame.columns,
          values |-> before.values \o frame.values]
    ELSE frame

\* self.results = pd.DataFrame(results).T: the assignment rebinds the
\* attribute to the new frame, whatever it held before.
assign_results(before, frame) == frame

\* Game.play. last also records whether self.results held more than n_rolls
\* rows at the call.
play(n_rolls) ==
    /\ game.made
    /\ LET err == play_error(game.dice, n_rolls)
           shorter == n_rolls < n_rows(game.results)
       IN IF err = "none"
          THEN \E results \in play_rolls(game.dice, n_rolls) :
                 /\ game' = [game EXCEPT !.results =
                                assign_results(game.results, play_results(results))]
                 /\ last' = [op |-> "play", n_rolls |-> n_rolls, err |-> err,
                             shorter |-> shorter]
          ELSE /\ game' = game
               /\ last' = [op |-> "play", n_rolls |-> n_rolls, err |-> err,
                           shorter |-> shorter]
    /\ UNCHANGED <<dice, analyzer>>

\* self.results.stack().reset_index() with the columns renamed and
\* set_index(["roll", "die"]): one row per cell, row by row.
narrow(df) ==
    LET k == Len(df.columns)
        cells == Len(df.index) * k
    IN [index |-> [p \in 1..cells |->
                     [roll |-> df.index[((p - 1) \div k) + 1],
                      die |-> df.columns[((p - 1) % k) + 1]]],
        columns |-> <<"outcome">>,
        values |-> [p \in 1..cells |->
                     <<df.values[((p - 1) \div k) + 1][((p - 1) % k) + 1]>>]]

\* disp_results_error that reads self.results before it looks at form.
disp_results_error_eager(form) ==
    IF ~game.results.played THEN "AttributeError"
    ELSE IF form = "wide" \/ form = "narrow" THEN "none"
    ELSE "ValueError"

\* Game.disp_results: the exception raised; self.results is read only for
\* the two known forms, and does not exist before the first play.
disp_results_error(form) ==
    IF form = "wide" \/ form = "narrow"
    THEN IF game.results.played THEN "none" ELSE "AttributeError"
    ELSE "ValueError"

disp_results(form) ==
    /\ game.made
    /\ LET err == disp_results_error(form)
       IN last' = IF err # "none"
                  THEN [op |-> "disp_results", form |-> form, err |-> err]
                  ELSE [op |-> "disp_results", form |-> form, err |-> err,
                        out |-> IF form = "wide" THEN game.results
                                ELSE narrow(game.results)]
    /\ UNCHANGED <<dice, game, analyzer>>

------------------------------------------------------------------------------
\* class Analyzer

\* Analyzer_new that keeps a copy of the game taken at construction.
Analyzer_new_copy(g) == [made |-> TRUE, game |-> [ref |-> FALSE, copy |-> g]]

\* self.game = game: the attribute is bound to the caller's Game object, not
\* to a copy of it.
Analyzer_new(g) == [made |-> TRUE, game |-> [ref |-> TRUE]]

\* self.game: the Game object the attribute denotes when a method runs.
self_game == IF analyzer.game.ref THEN game ELSE analyzer.game.copy

\* Analyzer.__init__: given the caller's game, or something that is no Game.
Analyzer_init(arg) ==
    /\ arg = "Game" => game.made
    /\ IF arg = "Game"
       THEN /\ analyzer' = Analyzer_new(game)
            /\ last' = [op |-> "Analyzer", err |-> "none"]
       ELSE /\ analyzer' = analyzer
            /\ last' = [op |-> "Analyzer", err |-> "ValueError"]
    /\ UNCHANGED <<dice, game>>

\* self.game.results.values: the rows of the game's frame, read at the call.
results_values == self_game.results.values

\* n_jackpots_count that also counts the rows showing two values.
RECURSIVE n_jackpots_count_two(_)
n_jackpots_count_two(rolls) ==
    IF rolls = <<>> THEN 0
    ELSE (IF Cardinality(set(rolls[1])) <= 2 THEN 1 ELSE 0)
         + n_jackpots_count_two(Tail(rolls))

\* Analyzer.n_jackpots: the loop over the rows.
RECURSIVE n_jackpots_count(_)
n_jackpots_count(rolls) ==
    IF rolls = <<>> THEN 0
    ELSE (IF Cardinality(set(rolls[1])) = 1 THEN 1 ELSE 0)
         + n_jackpots_count(Tail(rolls))

\* The keys of a dict filled in the order of seq: first appearances.
RECURSIVE first_seen(_, _)
first_seen(seq, keys) ==
    IF seq = <<>> THEN keys
    ELSE first_seen(Tail(seq),
                    IF \E i \in DOMAIN keys : keys[i] = seq[1]
                    THEN keys ELSE Append(keys, seq[1]))

\* counts[face] = counts.get(face, 0) + 1 over a roll.
face_count(roll) ==
    [face \in set(roll) |-> Cardinality({i \in DOMAIN roll : roll[i] = face})]

RECURSIVE Flatten(_)
Flatten(rows) == IF rows = <<>> THEN <<>> ELSE rows[1] \o Flatten(Tail(rows))

\* pd.DataFrame(face_counts).fillna(0).astype(int): a column per key seen,
\* in the order seen, 0 where a roll's dict lacks the key.
DataFrame_counts(rolls) ==
    LET columns == first_seen(Flatten(rolls), <<>>)
    IN [index |-> [r \in DOMAIN rolls |-> r - 1],
        columns |-> columns,
        values |-> [r \in DOMAIN rolls |->
                     [c \in DOMAIN columns |->
                        IF columns[c] \in DOMAIN face_count(rolls[r])
                        THEN face_count(rolls[r])[columns[c]] ELSE 0]]]

\* DataFrame.reindex(columns=..., fill_value=...): the named columns, those
\* the frame lacks filled.
reindex(df, columns, fill_value) ==
    [index |-> df.index,
     columns |-> columns,
     values |-> [r \in DOMAIN df.values |->
                  [c \in DOMAIN columns |->
                     IF \E o \in DOMAIN df.columns : df.columns[o] = columns[c]
                     THEN df.values[r][CHOOSE o \in DOMAIN df.columns :
                                           df.columns[o] = columns[c]]
                     ELSE fill_value]]]

\* Analyzer.n_faces_per_roll: the frame returned.
n_faces_per_roll_frame(rolls) ==
    LET face_counts_df == reindex(DataFrame_counts(rolls),
                                  sorted(<<1, 2, 3, 4, 5, 6>>), 0)
    IN [face_counts_df EXCEPT !.index = [r \in 1..Len(face_counts_df.values) |-> r]]

\* tally that starts a combination over when it comes again.
RECURSIVE tally_reset(_, _)
tally_reset(keys, counts) ==
    IF keys = <<>> THEN counts
    ELSE tally_reset(Tail(keys),
               IF \E i \in DOMAIN counts : counts[i].key = keys[1]
               THEN [i \in DOMAIN counts |->
                       IF counts[i].key = keys[1]
                       THEN [counts[i] EXCEPT !.n = 1] ELSE counts[i]]
               ELSE Append(counts, [key |-> keys[1], n |-> 1]))

\* The dict of counts: a key seen again is incremented, a new one starts at 1.
RECURSIVE tally(_, _)
tally(keys, counts) ==
    IF keys = <<>> THEN counts
    ELSE tally(Tail(keys),
               IF \E i \in DOMAIN counts : counts[i].key = keys[1]
               THEN [i \in DOMAIN counts |->
                       IF counts[i].key = keys[1]
                       THEN [counts[i] EXCEPT !.n = @ + 1] ELSE counts[i]]
               ELSE Append(counts, [key |-> keys[1], n |-> 1]))

\* pd.DataFrame(list(d.items()), columns=[key_name, count_name])
\*   .set_index(key_name)
DataFrame_items(counts, key_name, count_name) ==
    [index_name |-> key_name,
     index |-> [i \in DOMAIN counts |-> counts[i].key],
     columns |-> <<count_name>>,
     values |-> [i \in DOMAIN counts |-> <<counts[i].n>>]]

\* Analyzer.n_combinations: the frame returned.
n_combinations_frame(rolls) ==
    DataFrame_items(tally([r \in DOMAIN rolls |-> sorted(rolls[r])], <<>>),
                    "Combination", "Number")

\* Analyzer.n_permutations: the frame returned.
n_permutations_frame(rolls) ==
    DataFrame_items(tally(rolls, <<>>), "Permutation", "Count")

\* What an analysis method leaves in last: self.game.results does not exist
\* before the first play.
analysis(op, out) ==
    IF self_game.results.played
    THEN [op |-> op, err |-> "none", out |-> out]
    ELSE [op |-> op, err |-> "AttributeError"]

n_jackpots ==
    /\ analyzer.made
    /\ last' = analysis("n_jackpots", n_jackpots_count(results_values))
    /\ UNCHANGED <<dice, game, analyzer>>

n_faces_per_roll ==
    /\ analyzer.made
    /\ last' = analysis("n_faces_per_roll", n_faces_per_roll_frame(results_values))
    /\ UNCHANGED <<dice, game, analyzer>>

n_combinations ==
    /\ analyzer.made
    /\ last' = analysis("n_combinations", n_combinations_frame(results_values))
    /\ UNCHANGED <<dice, game, analyzer>>

n_permutations ==
    /\ analyzer.made
    /\ last' = analysis("n_permutations", n_permutations_frame(results_values))
    /\ UNCHANGED <<dice, game, analyzer>>

------------------------------------------------------------------------------

Init ==
    /\ dice = <<>>
    /\ game = NoGame
    /\ analyzer = NoAnalyzer
    /\ last = [op |-> "start", err |-> "none"]

\* The calls on dice alone.
NextDie ==
    \/ \E faces \in FacesInputs : Len(dice) < MaxSoloDice /\ Die_init(faces)
    \/ \E d \in 1..MaxSoloDice, f \in FaceVals, w \in WeightInputs : adjust_weight(d, f, w)
    \/ \E d \in 1..MaxSoloDice, n \in 1..MaxRolls : roll_die(d, n)
    \/ \E d \in 1..MaxSoloDice : roll_die_default(d)
    \/ \E d \in 1..MaxSoloDice : show_die(d)

SpecDie == Init /\ [][NextDie]_vars

\* The lists handed to Game(...): the caller builds its dice, then a game of
\* all of them, in the order they were built.
DiceLists == {[i \in 1..k |-> i] : k \in 0..MaxDice}

\* The faces handed to Die(...) where games are played: numpy arrays of
\* distinct values.  The inputs Die refuses are left to SpecDie.
ArrayInputs ==
    {faces \in FacesInputs :
        /\ faces.type = "ndarray"
        /\ \A i, j \in DOMAIN faces.data : faces.data[i] = faces.data[j] => i = j}

\* The calls that build dice and a game, play it and show the results.
NextGame ==
    \/ \E faces \in ArrayInputs : Len(dice) < MaxDice /\ ~game.made /\ Die_init(faces)
    \/ \E similar_dice \in DiceLists : Len(similar_dice) = Len(dice) /\ Game_init(similar_dice)
    \/ \E n \in 1..MaxRolls : play(n)
    \/ \E form \in {"wide", "narrow", "bogus"} : disp_results(form)

SpecGame == Init /\ [][NextGame]_vars

\* The face arrays of the dice whose games are analyzed: the analysis methods
\* read the outcomes, not the order the faces were declared in.
AscendingInputs == {faces \in ArrayInputs : faces.data = sorted(faces.data)}

\* The calls that build dice and a game, play it and analyze the results.
Next ==
    \/ \E faces \in AscendingInputs : Len(dice) < MaxDice /\ ~game.made /\ Die_init(faces)
    \/ \E similar_dice \in DiceLists : Len(similar_dice) = Len(dice) /\ Game_init(similar_dice)
    \/ \E n \in 1..MaxRolls : play(n)
    \/ \E arg \in {"Game", "str"} : Analyzer_init(arg)
    \/ n_jackpots
    \/ n_faces_per_roll
    \/ n_combinations
    \/ n_permutations

Spec == Init /\ [][Next]_vars

\* The weights the caller gives a die that a game holds.
SharedWeightInputs == {IntW(0)}

\* A caller that builds the dice, the game and the analyzer first, and then
\* adjusts the dice, plays and analyses in any order.
NextShared ==
    \/ \E faces \in ArrayInputs :
         Len(dice) < MaxSharedDice /\ ~game.made /\ Die_init(faces)
    \/ \E similar_dice \in DiceLists :
         Len(similar_dice) = Len(dice) /\ Game_init(similar_dice)
    \/ \E arg \in {"Game"} :
         game.made /\ ~game.results.played /\ Analyzer_init(arg)
    \/ \E d \in 1..MaxSharedDice, f \in FaceVals, w \in SharedWeightInputs :
         game.made /\ adjust_weight(d, f, w)
    \/ \E n \in 1..MaxRolls : play(n)
    \/ n_jackpots
    \/ n_faces_per_roll
    \/ n_combinations
    \/ n_permutations

SpecShared == Init /\ [][NextShared]_vars

------------------------------------------------------------------------------
\* Properties of Die.

\* The number a weight input stands for, for the inputs that are numbers or
\* spell one.
ExpectedWeight(w) ==
    CASE w = IntW(0) -> 0
      [] w = IntW(2) -> 2
      [] w = StrW(<<"-", "1">>) -> 0 - 1

IsNumberInput(w) == w \in {IntW(0), IntW(2), StrW(<<"-", "1">>)}

HasDuplicate(s) == \E i, j \in DOMAIN s : i # j /\ s[i] = s[j]

FaceSet(die) == {die.faces[i] : i \in DOMAIN die.faces}

\* The rows of the frame that carry a weight for face f.
Entries(df, f) == {i \in DOMAIN df : df[i].face = f}

\* A die that can be rolled: no negative weight, and one positive.
Rollable(die) ==
    /\ \A i \in DOMAIN die._die : die._die[i].weight >= 0
    /\ \E i \in DOMAIN die._die : die._die[i].weight > 0

C8_WeightsNonNegative ==
    \A d \in DOMAIN dice :
        /\ \A f \in FaceSet(dice[d]) : Cardinality(Entries(dice[d]._die, f)) = 1
        /\ \A i \in DOMAIN dice[d]._die : dice[d]._die[i].weight >= 0

\* C9: a successful adjust_weight(face, w) sets the weight of that face to w
\* and changes nothing else; a failed one (IndexError for a face not on the
\* die, TypeError for a weight that is no number and spells none) changes
\* nothing at all.
C9_AdjustFrame ==
    [][last'.op = "adjust_weight" =>
        LET d == last'.die
            f == last'.face_value
            w == last'.adjusted_weight
        IN /\ last'.err = (IF f \notin FaceSet(dice[d]) THEN "IndexError"
                           ELSE IF ~IsNumberInput(w) THEN "TypeError"
                           ELSE "none")
           /\ last'.err # "none" => dice' = dice
           /\ last'.err = "none" =>
                /\ Len(dice') = Len(dice)
                /\ \A e \in DOMAIN dice : e # d => dice'[e] = dice[e]
                /\ dice'[d].faces = dice[d].faces
                /\ DOMAIN dice'[d]._die = DOMAIN dice[d]._die
                /\ \A i \in DOMAIN dice[d]._die :
                     /\ dice'[d]._die[i].face = dice[d]._die[i].face
                     /\ dice'[d]._die[i].weight =
                          IF dice[d]._die[i].face = f
                          THEN ExpectedWeight(w)
                          ELSE dice[d]._die[i].weight]_vars

\* C9 witness: one face of a two-faced die was set to 2, the other is still 1.
C9_Witness ==
    /\ last.op = "adjust_weight"
    /\ last.err = "none"
    /\ Len(dice[last.die]._die) = 2
    /\ \E i, j \in DOMAIN dice[last.die]._die :
         /\ dice[last.die]._die[i].face = last.face_value
         /\ dice[last.die]._die[i].weight = 2
         /\ dice[last.die]._die[j].weight = 1

\* C10: Die(array) raises ValueError and builds no die when the array repeats
\* a value; it builds a die whose every face has weight 1 when it does not.
C10_DieInit ==
    [][last'.op = "Die" /\ last'.faces.type = "ndarray" =>
        IF HasDuplicate(last'.faces.data)
        THEN last'.err = "ValueError" /\ dice' = dice
        ELSE /\ last'.err = "none"
             /\ Len(dice') = Len(dice) + 1
             /\ \A e \in DOMAIN dice : dice'[e] = dice[e]
             /\ LET die == dice'[Len(dice')]
                IN /\ die.faces = last'.faces.data
                   /\ Len(die._die) = Len(die.faces)
                   /\ \A i \in DOMAIN die._die :
                        /\ die._die[i].face = die.faces[i]
                        /\ die._die[i].weight = 1]_vars

\* C10 witness: an array that repeats a value was refused and no die exists.
C10_Witness ==
    /\ last.op = "Die"
    /\ last.faces.type = "ndarray"
    /\ Len(last.faces.data) = 2
    /\ HasDuplicate(last.faces.data)
    /\ last.err = "ValueError"
    /\ dice = <<>>

------------------------------------------------------------------------------
\* Properties of Game.

\* The dice of the game, as objects of the heap.
GameDice == [i \in DOMAIN game.dice |-> dice[game.dice[i]]]

\* C2: after play(n) on a game of k dice the stored frame has the rows 1..n
\* and one column per die, labelled in the order of the dice; the narrow form
\* has n * k rows and the single column "outcome".
C2_Shape ==
    /\ (game.made /\ game.results.played) =>
          /\ Len(game.results.index) = Len(game.results.values)
          /\ \A r \in DOMAIN game.results.index : game.results.index[r] = r
          /\ Len(game.results.columns) = Len(game.dice)
          /\ \A c \in DOMAIN game.results.columns :
               game.results.columns[c] = [text |-> "Die ", number |-> c]
          /\ \A r \in DOMAIN game.results.values :
               Len(game.results.values[r]) = Len(game.dice)
    /\ (last.op = "play" /\ last.err = "none") =>
          /\ Len(game.results.values) = last.n_rolls
          /\ Len(narrow(game.results).values) = last.n_rolls * Len(game.dice)
    /\ (last.op = "disp_results" /\ last.form = "narrow" /\ last.err = "none") =>
          /\ Len(last.out.values) = Len(game.results.values) * Len(game.dice)
          /\ Len(last.out.index) = Len(last.out.values)
          /\ last.out.columns = <<"outcome">>
          /\ \A p \in DOMAIN last.out.values : Len(last.out.values[p]) = 1

\* C2 witness: the narrow form of one roll of two dice was returned.
C2_Witness ==
    /\ last.op = "disp_results"
    /\ last.form = "narrow"
    /\ last.err = "none"
    /\ Len(game.dice) = 2
    /\ Len(game.results.values) = 1
    /\ Len(last.out.values) = 2

\* C3, as stated: Game(dice) raises ValueError exactly when some die's set of
\* faces differs from the first die's, whatever the order the faces were
\* declared in.
C3_MismatchedFaces ==
    (last.op = "Game" /\ last.similar_dice # <<>>) =>
        /\ last.err \in {"none", "ValueError"}
        /\ last.err = "ValueError" <=>
             \E i \in DOMAIN last.similar_dice :
                FaceSet(dice[last.similar_dice[i]]) # FaceSet(dice[last.similar_dice[1]])

------------------------------------------------------------------------------
\* Properties of Analyzer.

\* C4, as stated: in every row of the n_faces_per_roll frame the counts sum to
\* the number of dice.
C4_RowSums ==
    (last.op = "n_faces_per_roll" /\ last.err = "none") =>
        \A r \in DOMAIN last.out.values :
            SumSeq(last.out.values[r]) = Len(game.dice)

\* C5, as stated: the columns of the n_faces_per_roll frame are the declared
\* faces of the dice, ascending: none missing, none added.
C5_Columns ==
    (last.op = "n_faces_per_roll" /\ last.err = "none") =>
        last.out.columns = SetToSeq(FaceSet(GameDice[1]))

Keys(frame) == {frame.index[i] : i \in DOMAIN frame.index}

TotalCount(frame) == SumSeq([i \in DOMAIN frame.values |-> frame.values[i][1]])

\* C6: the counts of n_combinations and those of n_permutations each sum to
\* the number of rolls, and the permutations have at least as many distinct
\* keys as the combinations.
C6_Totals ==
    /\ (last.op = "n_combinations" /\ last.err = "none") =>
          /\ TotalCount(last.out) = Len(game.results.values)
          /\ Cardinality(Keys(last.out)) = Len(last.out.index)
          /\ Cardinality(Keys(n_permutations_frame(results_values)))
                >= Cardinality(Keys(last.out))
    /\ (last.op = "n_permutations" /\ last.err = "none") =>
          /\ TotalCount(last.out) = Len(game.results.values)
          /\ Cardinality(Keys(last.out)) = Len(last.out.index)
          /\ Cardinality(Keys(last.out))
                >= Cardinality(Keys(n_combinations_frame(results_values)))

\* C6 witness: two rolls that are two permutations of one combination.
C6_Witness ==
    /\ last.op = "n_permutations"
    /\ last.err = "none"
    /\ Cardinality(Keys(last.out)) = 2
    /\ Cardinality(Keys(n_combinations_frame(results_values))) = 1

\* The rolls in which every die shows the same face.
JackpotRolls ==
    {r \in DOMAIN game.results.values :
        \A i, j \in DOMAIN game.results.values[r] :
            game.results.values[r][i] = game.results.values[r][j]}

\* C7: n_jackpots returns the number of rolls in which every die shows the
\* same face: 0 when there is none, every roll when the game has one die.
C7_Jackpots ==
    (last.op = "n_jackpots" /\ last.err = "none") =>
        /\ last.out = Cardinality(JackpotRolls)
        /\ Len(game.dice) = 1 => last.out = Len(game.results.values)

\* C7 witness: of two rolls of two dice, one is a jackpot.
C7_Witness ==
    /\ last.op = "n_jackpots"
    /\ last.err = "none"
    /\ Len(game.dice) = 2
    /\ Len(game.results.values) = 2
    /\ last.out = 1

---------------------------------------------------------------------------
\* Properties of a Game over several calls

\* A game that exists and holds a results frame.
HasResults(g) == g.made /\ g.results.played

\* C11: a game has no results until a play call on it returns, and a play
\* call that returns replaces them: after play(n) the stored frame holds the
\* rows 1..n, one outcome per die in each, however many rows it held before
\* the call, more than n included.
C11_Replace ==
    [][/\ (last'.op = "Game" /\ last'.err = "none") => ~HasResults(game')
       /\ (~HasResults(game) /\ HasResults(game')) =>
             (last'.op = "play" /\ last'.err = "none")
       /\ (last'.op = "play" /\ last'.err = "none") =>
             /\ HasResults(game')
             /\ game'.results.index = [r \in 1..last'.n_rolls |-> r]
             /\ Len(game'.results.values) = last'.n_rolls
             /\ \A r \in DOMAIN game'.results.values :
                  Len(game'.results.values[r]) = Len(game.dice)
      ]_vars

\* C11 witness: play(1) on a game whose frame held more rows leaves one row.
C11_Witness ==
    /\ last.op = "play"
    /\ last.err = "none"
    /\ last.shorter
    /\ last.n_rolls = 1
    /\ game.results.index = <<1>>
    /\ Len(game.results.values) = 1

\* C14: disp_results called with a form other than "wide" or "narrow" raises
\* ValueError in every state of the game, before the first play and after
\* plays alike, and leaves the game, its results included, as it was.
C14_InvalidForm ==
    [][(/\ last'.op = "disp_results"
        /\ last'.form \notin {"wide", "narrow"}) =>
            /\ last'.err = "ValueError"
            /\ game' = game
            /\ dice' = dice
      ]_vars

\* C14 witness: the call is refused on a game that was never played; last
\* changed, so the call is the step that led here.
C14_Witness ==
    /\ last.op = "disp_results"
    /\ last.form = "bogus"
    /\ last.err = "ValueError"
    /\ game.made
    /\ ~game.results.played

\* C14, second case: the call is refused on a game that holds two rolls.
C14_WitnessPlayed ==
    /\ last.op = "disp_results"
    /\ last.form = "bogus"
    /\ last.err = "ValueError"
    /\ HasResults(game)
    /\ Len(game.results.values) = 2

---------------------------------------------------------------------------
\* Properties of objects that share state

\* Face f is the one face of the die that has a positive weight.
OnlyPositive(die, f) ==
    /\ \E i \in DOMAIN die._die : die._die[i].face = f /\ die._die[i].weight > 0
    /\ \A i \in DOMAIN die._die : die._die[i].face # f => die._die[i].weight <= 0

\* C12: the game rolls the caller's dice as they are at the call: when a die
\* of the game has been adjusted so that one face alone has a positive
\* weight, every outcome of every later play in that die's column is that
\* face.
C12_SharedDice ==
    [][(last'.op = "play" /\ last'.err = "none") =>
          \A c \in DOMAIN game.dice : \A f \in FaceVals :
             OnlyPositive(dice[game.dice[c]], f) =>
                \A r \in DOMAIN game'.results.values :
                   game'.results.values[r][c] = f
      ]_vars

\* C12 witness: a die of two faces was given the weight 0 for its first face
\* after the game was built, and the play of two rolls that followed shows
\* the second face twice.
C12_Witness ==
    /\ last.op = "play"
    /\ last.err = "none"
    /\ last.n_rolls = 2
    /\ Len(dice[game.dice[1]].faces) = 2
    /\ dice[game.dice[1]]._die[1].weight = 0
    /\ OnlyPositive(dice[game.dice[1]], dice[game.dice[1]].faces[2])
    /\ \A r \in DOMAIN game.results.values :
         game.results.values[r][1] = dice[game.dice[1]].faces[2]

AnalysisOps == {"n_jackpots", "n_faces_per_roll", "n_combinations", "n_permutations"}

\* C13: an analysis method works on the results the game holds when the
\* method is called, whatever the game held when the analyzer was built: it
\* returns its statistic of those results (and raises when the game holds
\* none), and it leaves the game, its results and the dice as they were.
C13_LiveResults ==
    [][last'.op \in AnalysisOps =>
          /\ game' = game
          /\ dice' = dice
          /\ last'.err = "none" <=> HasResults(game)
          /\ (last'.op = "n_jackpots" /\ last'.err = "none") =>
                last'.out = Cardinality(JackpotRolls)
          /\ (last'.op = "n_faces_per_roll" /\ last'.err = "none") =>
                last'.out = n_faces_per_roll_frame(game.results.values)
          /\ (last'.op = "n_combinations" /\ last'.err = "none") =>
                last'.out = n_combinations_frame(game.results.values)
          /\ (last'.op = "n_permutations" /\ last'.err = "none") =>
                last'.out = n_permutations_frame(game.results.values)
      ]_vars

\* C13 witness: the analyzer was built on a game that held no results, the
\* game was played since, and n_permutations tells the one roll it holds now.
C13_Witness ==
    /\ last.op = "n_permutations"
    /\ last.err = "none"
    /\ analyzer.made
    /\ Len(game.results.values) = 1
    /\ last.out.index = game.results.values
    /\ last.out.values = <<<<1>>>>

====
